---- MODULE Spec2Model ----
(***************************************************************************)
(* A model of anomaly_report.py: one run of main() against an HTTP search  *)
(* endpoint, and the functions it calls.                                   *)
(*                                                                         *)
(* A document (a hit's _source) is a Python dict: here a function from the *)
(* keys it carries to their values, so that `'k' in record` is             *)
(* k \in DOMAIN record and record.get(k, d) is Get(record, k, d).          *)
(* Time is counted in days (the code sends epoch milliseconds; the window  *)
(* is DAYS_BACK days wide either way).                                     *)
(***************************************************************************)
EXTENDS Integers, Sequences, FiniteSets, TLC

VARIABLES
  pc,           \* where main() stands
  now,          \* datetime.now() of the run
  dirExists,    \* os.path.exists(REPORTS_DIR)
  image,        \* IMAGE_FILE on disk: "absent", "stale" (an earlier run's), "fresh"
  connOk,       \* test_connection() returned True in this run
  jobOk,        \* check_ml_job() returned True in this run
  requests,     \* the search requests (POST .../_search) sent so far, in order
  recResult,    \* what fetch_anomaly_data() returned
  bucketResult, \* what fetch_bucket_data() returned
  records,      \* main()'s local `records`
  vizSuccess,   \* main()'s local `viz_success`: "unset", "true", "false"
  chart,        \* the points drawn into the image saved by this run
  pdf,          \* the PDF written by this run
  outcome,      \* how the run ended
  resp1,        \* the answer given to a function applied on its own (first request)
  resp2         \* the same, second request

vars == <<pc, now, dirExists, image, connOk, jobOk, requests, recResult,
          bucketResult, records, vizSuccess, chart, pdf, outcome, resp1, resp2>>

----------------------------------------------------------------------------
(* Configuration and bounds *)

DAYS_BACK == 50

\* The "gte" of the query's record_score range.
ScoreThreshold == 0

TopN == 5

\* Most hits one search response carries in a run of main().
MaxHits == 2

\* Most hits of a response given to fetch_anomaly_data applied on its own.
MaxFetchHits == 2

\* Longest record list handed to the report functions applied on their own.
MaxRecs == 2

PrimaryIndex == ".ml-anomalies-analyze_test_results"

SharedIndex == ".ml-anomalies-shared"

RunTimes == {DAYS_BACK + 10, DAYS_BACK + 11}

----------------------------------------------------------------------------
(* Python values *)

Has(r, k) == k \in DOMAIN r

Get(r, k, d) == IF k \in DOMAIN r THEN r[k] ELSE d

Opt(S) == {<<>>} \cup {<<v>> : v \in S}

SeqsUpTo(S, n) == UNION {[1..k -> S] : k \in 0..n}

DocKeys(t, s, n, a) ==
  {"result_type"}
    \cup (IF t # <<>> THEN {"timestamp"} ELSE {})
    \cup (IF s # <<>> THEN {"record_score"} ELSE {})
    \cup (IF n # <<>> THEN {"partition_field_value"} ELSE {})
    \cup (IF a # <<>> THEN {"actual"} ELSE {})

\* A document of result type rt; t, s, n, a are <<>> (key absent) or <<value>>.
\* "actual" stands for the first element of the document's `actual` list.
MkDoc(rt, t, s, n, a) ==
  [k \in DocKeys(t, s, n, a) |->
     CASE k = "result_type" -> rt
       [] k = "timestamp" -> t[1]
       [] k = "record_score" -> s[1]
       [] k = "partition_field_value" -> n[1]
       [] k = "actual" -> a[1]]

\* Function return values: None, or a list.
None(msg) == [kind |-> "None", items |-> <<>>, msg |-> msg]

List(items, msg) == [kind |-> "list", items |-> items, msg |-> msg]

NotCalled == [kind |-> "unset", items |-> <<>>, msg |-> ""]

\* `not records`
Falsy(res) == res.kind # "list" \/ res.items = <<>>

----------------------------------------------------------------------------
(* HTTP responses *)

\* requests.get / requests.post raised (connection refused, timeout, ...).
Exc == [kind |-> "exc", status |-> 0, body |-> "none", hits |-> <<>>]

\* body: "invalid" (not the JSON the caller reads), "ok" (a GET's JSON),
\* "nohits" (JSON without a 'hits' key), "hits" (JSON with hits.hits = hits).
Http(status, body, hits) ==
  [kind |-> "http", status |-> status, body |-> body, hits |-> hits]

GetResponses ==
  {Exc} \cup {Http(s, b, <<>>) : s \in {200, 404}, b \in {"ok", "invalid"}}

SearchResponses(hitLists) ==
  {Exc, Http(404, "invalid", <<>>), Http(500, "invalid", <<>>),
   Http(200, "invalid", <<>>), Http(200, "nohits", <<>>)}
    \cup {Http(200, "hits", h) : h \in hitLists}

----------------------------------------------------------------------------
(* The queries, and the endpoint answering them *)

StartTime(t) == t - DAYS_BACK

AnomalyPayload(t) ==
  [result_type |-> "record",
   ts_range |-> <<StartTime(t), t>>,
   score_gte |-> <<ScoreThreshold>>,
   sort |-> "record_score desc"]

BucketPayload ==
  [result_type |-> "bucket",
   ts_range |-> <<>>,
   score_gte |-> <<>>,
   sort |-> "timestamp asc"]

\* A search endpoint's filter: the document satisfies every clause of the
\* payload's bool filter (a range clause needs the field to be there).
Matches(p, d) ==
  /\ d["result_type"] = p.result_type
  /\ p.ts_range # <<>> =>
       /\ Has(d, "timestamp")
       /\ p.ts_range[1] <= d["timestamp"]
       /\ d["timestamp"] <= p.ts_range[2]
  /\ p.score_gte # <<>> =>
       /\ Has(d, "record_score")
       /\ d["record_score"] >= p.score_gte[1]

\* The payload's sort clause; a document without the sort field comes last.
SortedBy(p, h) ==
  \A i \in 1..(Len(h) - 1) :
    IF p.sort = "record_score desc"
    THEN Has(h[i], "record_score") /\ Has(h[i + 1], "record_score")
           => h[i]["record_score"] >= h[i + 1]["record_score"]
    ELSE \/ ~Has(h[i + 1], "timestamp")
         \/ Has(h[i], "timestamp") /\ h[i]["timestamp"] <= h[i + 1]["timestamp"]

\* The documents the job's results index may hold at a run at time t.
IndexDocs(t) ==
  {MkDoc("record", <<ts>>, <<s>>, n, a) :
     ts \in {StartTime(t) - 1, StartTime(t), t}, s \in {0, 30, 80},
     n \in Opt({"A", "B"}), a \in Opt({5})}
    \cup {MkDoc("bucket", ts, s, <<>>, a) :
            ts \in Opt({StartTime(t) - 1, t}), s \in Opt({80}), a \in Opt({5})}

\* What an endpoint that evaluates the query may answer.
EndpointResponses(p, t) ==
  SearchResponses({h \in SeqsUpTo({d \in IndexDocs(t) : Matches(p, d)}, MaxHits) :
                     SortedBy(p, h)})

\* What any HTTP responder may answer fetch_anomaly_data.
AnyDocs(t) ==
  {MkDoc("record", ts, s, n, <<>>) :
     ts \in Opt({StartTime(t) - 1, t}), s \in Opt({0 - 5, 0, 30}),
     n \in Opt({"A"})}

AnyResponses(t) == SearchResponses(SeqsUpTo(AnyDocs(t), MaxFetchHits))

----------------------------------------------------------------------------
(* test_connection, check_ml_job *)

\* r: the answer to GET /_cluster/health
TestConnectionResult(r) ==
  IF r.kind = "exc" THEN FALSE
  ELSE IF r.body = "invalid" THEN FALSE
  ELSE TRUE

\* r: the answer to GET /_ml/anomaly_detectors/<job>; s: to .../_stats
CheckMlJobResult(r, s) ==
  IF r.kind = "exc" THEN FALSE
  ELSE IF r.status = 200
    THEN IF r.body = "invalid" THEN FALSE
         ELSE IF s.kind = "exc" THEN FALSE
         ELSE IF s.status = 200 THEN s.body # "invalid"
         ELSE TRUE
  ELSE FALSE

----------------------------------------------------------------------------
(* fetch_anomaly_data *)

Request(fn, index, payload, r) ==
  [fn |-> fn, index |-> index, payload |-> payload,
   status |-> IF r.kind = "exc" THEN 0 ELSE r.status]

IsNotFound(r) == r.kind = "http" /\ r.status = 404

AnomalyRequestsRetryOnError(t, r1, r2) ==
  <<Request("fetch_anomaly_data", PrimaryIndex, AnomalyPayload(t), r1)>>
    \o (IF r1.kind = "http" /\ r1.status # 200
        THEN <<Request("fetch_anomaly_data", SharedIndex, AnomalyPayload(t), r2)>>
        ELSE <<>>)

\* The search requests fetch_anomaly_data sends when answered r1, then r2.
AnomalyRequests(t, r1, r2) ==
  <<Request("fetch_anomaly_data", PrimaryIndex, AnomalyPayload(t), r1)>>
    \o (IF IsNotFound(r1)
        THEN <<Request("fetch_anomaly_data", SharedIndex, AnomalyPayload(t), r2)>>
        ELSE <<>>)

AnomalyResponseFirstOnly(r1, r2) == r1

\* `response` after the 404 retry.
AnomalyResponse(r1, r2) == IF IsNotFound(r1) THEN r2 ELSE r1

UnfilteredRecords(recs) == recs

\* [r for r in records if r.get('record_score', 0) > 0]
SignificantRecords(recs) ==
  SelectSeq(recs, LAMBDA r : Get(r, "record_score", 0) > 0)

\* The value returned when answered r1, then (after a 404) r2. The HTTPError
\* branch also sends GET /_cat/indices, which is no search request and whose
\* answer is only printed.
FetchAnomalyData(r1, r2) ==
  LET response == AnomalyResponse(r1, r2) IN
  IF response.kind = "exc" THEN None("Error fetching data")
  ELSE IF response.status >= 400 THEN None("HTTP error fetching data")
  ELSE IF response.body = "invalid" THEN None("Error fetching data")
  ELSE IF response.body = "nohits" \/ response.hits = <<>>
    THEN None("No anomaly records found.")
  ELSE List(SignificantRecords(response.hits), "Fetched")

----------------------------------------------------------------------------
(* fetch_bucket_data *)

\* The search requests fetch_bucket_data sends when answered r1, then r2.
BucketRequests(r1, r2) ==
  <<Request("fetch_bucket_data", PrimaryIndex, BucketPayload, r1)>>
    \o (IF IsNotFound(r1)
        THEN <<Request("fetch_bucket_data", SharedIndex, BucketPayload, r2)>>
        ELSE <<>>)

FetchBucketData(r1, r2) ==
  LET response == IF IsNotFound(r1) THEN r2 ELSE r1 IN
  IF response.kind = "exc" THEN None("Could not fetch bucket data")
  ELSE IF response.status = 200
    THEN IF response.body # "hits" THEN None("Could not fetch bucket data")
         ELSE IF response.hits # <<>> THEN List(response.hits, "Fetched")
         ELSE None("")
  ELSE None("")

----------------------------------------------------------------------------
(* generate_visualization *)

\* The `timestamps` list: one entry per record that has a 'timestamp' key.
Timestamps(recs) ==
  LET with == SelectSeq(recs, LAMBDA r : Has(r, "timestamp"))
  IN [i \in 1..Len(with) |-> with[i]["timestamp"]]

\* The `scores` list: one entry per record.
Scores(recs) == [i \in 1..Len(recs) |-> Get(recs[i], "record_score", 0)]

\* The `test_names` list: one entry per record.
TestNames(recs) ==
  [i \in 1..Len(recs) |-> Get(recs[i], "partition_field_value", "Unknown")]

ActualValues(recs) == [i \in 1..Len(recs) |-> Get(recs[i], "actual", 0)]

TypicalValues(recs) == [i \in 1..Len(recs) |-> Get(recs[i], "typical", 0)]

\* any(values)
AnyTrue(values) == \E i \in 1..Len(values) : values[i] # 0

Min(a, b) == IF a <= b THEN a ELSE b

\* zip(timestamps, scores, test_names): the points of the scatter plot.
ScatterPoints(recs) ==
  LET ts == Timestamps(recs)
      sc == Scores(recs)
      tn == TestNames(recs)
  IN [i \in 1..Min(Len(ts), Min(Len(sc), Len(tn))) |->
        [x |-> ts[i], y |-> sc[i], test |-> tn[i]]]

\* result: "false" (returned False), "true" (image saved, returned True),
\* "raised" (ax2.plot refused x and y of different lengths).
GenerateVisualization(recs) ==
  IF recs = <<>> THEN [result |-> "false", points |-> <<>>]
  ELSE IF Timestamps(recs) = <<>> THEN [result |-> "false", points |-> <<>>]
  ELSE IF /\ AnyTrue(ActualValues(recs)) \/ AnyTrue(TypicalValues(recs))
          /\ Len(Timestamps(recs)) # Len(ActualValues(recs))
    THEN [result |-> "raised", points |-> <<>>]
  ELSE [result |-> "true", points |-> ScatterPoints(recs)]

----------------------------------------------------------------------------
(* create_pdf_report *)

Score(r) == Get(r, "record_score", 0)

IsCritical(s) == s > 75

IsMajorInclusive(s) == 50 <= s /\ s <= 75

IsMajor(s) == 50 < s /\ s <= 75

IsMinor(s) == 25 < s /\ s <= 50

CriticalCount(recs) == Len(SelectSeq(recs, LAMBDA r : IsCritical(Score(r))))

MajorCount(recs) == Len(SelectSeq(recs, LAMBDA r : IsMajor(Score(r))))

MinorCount(recs) == Len(SelectSeq(recs, LAMBDA r : IsMinor(Score(r))))

RECURSIVE InsertDesc(_, _)
\* x put behind every element whose score is at least its own.
InsertDesc(x, s) ==
  IF s = <<>> THEN <<x>>
  ELSE IF Score(Head(s)) >= Score(x) THEN <<Head(s)>> \o InsertDesc(x, Tail(s))
  ELSE <<x>> \o s

RECURSIVE SortedDesc(_)
\* sorted(records, key=record_score, reverse=True): stable.
SortedDesc(recs) ==
  IF recs = <<>> THEN <<>>
  ELSE InsertDesc(recs[Len(recs)], SortedDesc(SubSeq(recs, 1, Len(recs) - 1)))

TopAnomalies(recs) ==
  LET s == SortedDesc(recs)
  IN [i \in 1..Min(TopN, Len(s)) |->
        [test |-> Get(s[i], "partition_field_value", "Unknown"),
         score |-> Score(s[i]),
         time |-> Get(s[i], "timestamp", 0)]]

NoPdf ==
  [written |-> FALSE, stats |-> FALSE, total |-> 0, critical |-> 0,
   major |-> 0, minor |-> 0, image |-> "none", top |-> <<>>]

\* The PDF written for recs when IMAGE_FILE is img ("absent", "stale", "fresh").
CreatePdfReport(recs, img) ==
  [written |-> TRUE,
   stats |-> recs # <<>>,
   total |-> Len(recs),
   critical |-> CriticalCount(recs),
   major |-> MajorCount(recs),
   minor |-> MinorCount(recs),
   image |-> IF img # "absent" THEN img ELSE "none",
   top |-> TopAnomalies(recs)]

----------------------------------------------------------------------------
(* main *)

AfterTestConnectionNoAbort(ok) == "check_ml_job"

AfterTestConnection(ok) == IF ok THEN "check_ml_job" ELSE "done"

AfterCheckMlJob(ok) == IF ok THEN "fetch_records" ELSE "done"

NeedsFallbackOnNoneOnly(res) == res.kind # "list"

NeedsFallbackOnEmptyOnly(res) ==
  Falsy(res) /\ res.msg \in {"No anomaly records found.", "Fetched"}

\* `if not records:` after fetch_anomaly_data
NeedsFallback(res) == Falsy(res)

\* `if not records:` before the report is built
NoData(res) == Falsy(res)

Init ==
  /\ pc = "start"
  /\ now \in RunTimes
  /\ dirExists \in BOOLEAN
  /\ image \in (IF dirExists THEN {"absent", "stale"} ELSE {"absent"})
  /\ connOk = FALSE
  /\ jobOk = FALSE
  /\ requests = <<>>
  /\ recResult = NotCalled
  /\ bucketResult = NotCalled
  /\ records = NotCalled
  /\ vizSuccess = "unset"
  /\ chart = <<>>
  /\ pdf = NoPdf
  /\ outcome = "running"
  /\ resp1 = Exc
  /\ resp2 = Exc

EnsureReportsDirectory ==
  /\ pc = "start"
  /\ dirExists' = TRUE
  /\ pc' = "test_connection"
  /\ UNCHANGED <<now, image, connOk, jobOk, requests, recResult, bucketResult,
                 records, vizSuccess, chart, pdf, outcome, resp1, resp2>>

TestConnection ==
  /\ pc = "test_connection"
  /\ \E r \in GetResponses :
       LET ok == TestConnectionResult(r) IN
       /\ connOk' = ok
       /\ pc' = AfterTestConnection(ok)
       /\ outcome' = IF AfterTestConnection(ok) = "done"
                     THEN "no_connection" ELSE outcome
  /\ UNCHANGED <<now, dirExists, image, jobOk, requests, recResult,
                 bucketResult, records, vizSuccess, chart, pdf, resp1, resp2>>

CheckMlJob ==
  /\ pc = "check_ml_job"
  /\ \E r \in GetResponses :
       \E s \in (IF r.kind = "http" /\ r.status = 200 /\ r.body # "invalid"
                 THEN GetResponses ELSE {Exc}) :
         LET ok == CheckMlJobResult(r, s) IN
         /\ jobOk' = ok
         /\ pc' = AfterCheckMlJob(ok)
         /\ outcome' = IF AfterCheckMlJob(ok) = "done" THEN "no_job" ELSE outcome
  /\ UNCHANGED <<now, dirExists, image, connOk, requests, recResult,
                 bucketResult, records, vizSuccess, chart, pdf, resp1, resp2>>

\* records = fetch_anomaly_data(); if not records: ...
FetchRecords ==
  /\ pc = "fetch_records"
  /\ \E r1 \in EndpointResponses(AnomalyPayload(now), now) :
       \E r2 \in (IF IsNotFound(r1)
                  THEN EndpointResponses(AnomalyPayload(now), now) ELSE {Exc}) :
         LET res == FetchAnomalyData(r1, r2) IN
         /\ requests' = requests \o AnomalyRequests(now, r1, r2)
         /\ recResult' = res
         /\ records' = res
         /\ pc' = IF NeedsFallback(res) THEN "fetch_bucket"
                  ELSE IF NoData(res) THEN "done" ELSE "visualize"
         /\ outcome' = IF ~NeedsFallback(res) /\ NoData(res)
                       THEN "no_data" ELSE outcome
  /\ UNCHANGED <<now, dirExists, image, connOk, jobOk, bucketResult,
                 vizSuccess, chart, pdf, resp1, resp2>>

\* records = fetch_bucket_data(); if not records: ... return
FetchBuckets ==
  /\ pc = "fetch_bucket"
  /\ \E r1 \in EndpointResponses(BucketPayload, now) :
       \E r2 \in (IF IsNotFound(r1)
                  THEN EndpointResponses(BucketPayload, now) ELSE {Exc}) :
         LET res == FetchBucketData(r1, r2) IN
         /\ requests' = requests \o BucketRequests(r1, r2)
         /\ bucketResult' = res
         /\ records' = res
         /\ pc' = IF NoData(res) THEN "done" ELSE "visualize"
         /\ outcome' = IF NoData(res) THEN "no_data" ELSE outcome
  /\ UNCHANGED <<now, dirExists, image, connOk, jobOk, recResult,
                 vizSuccess, chart, pdf, resp1, resp2>>

\* viz_success = generate_visualization(records)
Visualize ==
  /\ pc = "visualize"
  /\ LET v == GenerateVisualization(records.items) IN
     /\ vizSuccess' = IF v.result = "raised" THEN vizSuccess ELSE v.result
     /\ image' = IF v.result = "true" THEN "fresh" ELSE image
     /\ chart' = IF v.result = "true" THEN v.points ELSE chart
     /\ pc' = IF v.result = "raised" THEN "done" ELSE "create_pdf"
     /\ outcome' = IF v.result = "raised" THEN "raised" ELSE outcome
  /\ UNCHANGED <<now, dirExists, connOk, jobOk, requests, recResult,
                 bucketResult, records, pdf, resp1, resp2>>

\* create_pdf_report(records), and main()'s closing messages
CreatePdf ==
  /\ pc = "create_pdf"
  /\ pdf' = CreatePdfReport(records.items, image)
  /\ pc' = "done"
  /\ outcome' = "completed"
  /\ UNCHANGED <<now, dirExists, image, connOk, jobOk, requests, recResult,
                 bucketResult, records, vizSuccess, chart, resp1, resp2>>

Next ==
  \/ EnsureReportsDirectory
  \/ TestConnection
  \/ CheckMlJob
  \/ FetchRecords
  \/ FetchBuckets
  \/ Visualize
  \/ CreatePdf

Spec == Init /\ [][Next]_vars

----------------------------------------------------------------------------
(* fetch_anomaly_data applied on its own, to whatever the responder answers *)

InitFetch ==
  /\ pc = "fetch_records"
  /\ now \in RunTimes
  /\ dirExists = TRUE
  /\ image = "absent"
  /\ connOk = TRUE
  /\ jobOk = TRUE
  /\ requests = <<>>
  /\ recResult = NotCalled
  /\ bucketResult = NotCalled
  /\ records = NotCalled
  /\ vizSuccess = "unset"
  /\ chart = <<>>
  /\ pdf = NoPdf
  /\ outcome = "running"
  /\ resp1 = Exc
  /\ resp2 = Exc

ApplyFetchAnomalyData ==
  /\ pc = "fetch_records"
  /\ \E r1 \in AnyResponses(now) :
       \E r2 \in (IF IsNotFound(r1) THEN AnyResponses(now) ELSE {Exc}) :
         /\ resp1' = r1
         /\ resp2' = r2
         /\ requests' = requests \o AnomalyRequests(now, r1, r2)
         /\ recResult' = FetchAnomalyData(r1, r2)
         /\ records' = FetchAnomalyData(r1, r2)
         /\ pc' = "returned"
  /\ UNCHANGED <<now, dirExists, image, connOk, jobOk, bucketResult,
                 vizSuccess, chart, pdf, outcome>>

NextFetch == ApplyFetchAnomalyData

SpecFetch == InitFetch /\ [][NextFetch]_vars

----------------------------------------------------------------------------
(* generate_visualization and create_pdf_report applied to a record list *)

ScoreSamples == {0, 10, 25, 26, 30, 50, 51, 60, 75, 76, 80, 100}

ReportDocs(t) ==
  {MkDoc("record", ts, <<s>>, <<n>>, a) :
     ts \in Opt({StartTime(t), t}), s \in {10, 80}, n \in {"A", "B"},
     a \in Opt({5})}

ScoreDoc(t, s) == MkDoc("record", <<t>>, s, <<"A">>, <<>>)

ScenarioScores == <<80, 60, 30, 10>>

ReportInputs(t) ==
  SeqsUpTo(ReportDocs(t), MaxRecs)
    \cup SeqsUpTo({ScoreDoc(t, s) : s \in Opt(ScoreSamples)}, MaxRecs)
    \cup {<<ScoreDoc(t, <<s>>)>> : s \in 0..100}
    \cup {[i \in 1..Len(ScenarioScores) |-> ScoreDoc(t, <<ScenarioScores[i]>>)]}

InitReport ==
  /\ pc = "visualize"
  /\ now \in RunTimes
  /\ dirExists = TRUE
  /\ image \in {"absent", "stale"}
  /\ connOk = TRUE
  /\ jobOk = TRUE
  /\ requests = <<>>
  /\ recResult = NotCalled
  /\ bucketResult = NotCalled
  /\ records \in {List(recs, "Fetched") : recs \in ReportInputs(now)}
  /\ vizSuccess = "unset"
  /\ chart = <<>>
  /\ pdf = NoPdf
  /\ outcome = "running"
  /\ resp1 = Exc
  /\ resp2 = Exc

NextReport ==
  \/ Visualize
  \/ CreatePdf

SpecReport == InitReport /\ [][NextReport]_vars

----------------------------------------------------------------------------
(* Properties *)

Called(res) == res # NotCalled

RequestsOf(fn) == SelectSeq(requests, LAMBDA q : q.fn = fn)

ChartWritten == image = "fresh"

\* fetch_anomaly_data returned None from one of its except branches.
RecordFetchFailed ==
  /\ recResult.kind = "None"
  /\ recResult.msg \in {"Error fetching data", "HTTP error fetching data"}

\* C1: no search request is sent and no chart or PDF is written unless
\* test_connection() and then check_ml_job() returned True earlier in the run;
\* a run that fails either check ends having sent no search request.
C1_ChecksPrecedeFetch ==
  /\ (jobOk => connOk)
  /\ (requests # <<>> \/ Called(recResult) \/ Called(bucketResult)
        \/ ChartWritten \/ pdf.written) => (connOk /\ jobOk)
  /\ outcome \in {"no_connection", "no_job"} =>
       /\ pc = "done"
       /\ requests = <<>>
       /\ ~ChartWritten
       /\ ~pdf.written

\* A run aborted by a missing job after a successful connection test.
C1_Witness ==
  /\ pc = "done"
  /\ outcome = "no_job"
  /\ connOk
  /\ ~jobOk
  /\ requests = <<>>

\* C2 as claimed: after a 404 on the job index and a 200 with a hits list on
\* the shared index, fetch_anomaly_data returns exactly that list's records.
C2_FallbackReturnsItsRecords ==
  (pc = "returned" /\ IsNotFound(resp1) /\ resp2.kind = "http"
     /\ resp2.status = 200 /\ resp2.body = "hits")
    => (recResult.kind = "list" /\ recResult.items = resp2.hits)

\* C2 amended: after a 404 on the job index and a 200 on the shared index,
\* fetch_anomaly_data returns the fallback response's records whose
\* record_score (missing read as 0) is above 0, in the response's order, and
\* None when that response carries no hits.
C2_FallbackReturnsSignificantRecords ==
  (pc = "returned" /\ IsNotFound(resp1) /\ resp2.kind = "http"
     /\ resp2.status = 200)
    => IF resp2.body = "hits" /\ resp2.hits # <<>>
       THEN /\ recResult.kind = "list"
            /\ recResult.items =
                 SelectSeq(resp2.hits,
                           LAMBDA r : IF Has(r, "record_score")
                                      THEN r["record_score"] > 0 ELSE FALSE)
            /\ Len(requests) = 2
            /\ requests[2].index = SharedIndex
       ELSE recResult.kind = "None"

\* The fallback answered with a record above 0 and one that is not.
C2_Witness ==
  /\ pc = "returned"
  /\ IsNotFound(resp1)
  /\ resp2.kind = "http" /\ resp2.status = 200 /\ resp2.body = "hits"
  /\ Len(resp2.hits) = 2
  /\ recResult.kind = "list"
  /\ Len(recResult.items) = 1

\* C3: zero records from the record query lead to the bucket query next; zero
\* records from that too end the run with "no data available", without a
\* chart or a PDF and without an error.
C3_EmptyThenBucketThenNoData ==
  /\ (Called(recResult) /\ Falsy(recResult)) =>
       \/ pc = "fetch_bucket" /\ ~Called(bucketResult)
       \/ Called(bucketResult) /\ Len(RequestsOf("fetch_bucket_data")) >= 1
  /\ (Called(recResult) /\ Falsy(recResult)
        /\ Called(bucketResult) /\ Falsy(bucketResult)) =>
       /\ pc = "done"
       /\ outcome = "no_data"
       /\ vizSuccess = "unset"
       /\ ~ChartWritten
       /\ chart = <<>>
       /\ ~pdf.written

\* Every fetched record was dropped by the score filter, and no bucket came.
C3_Witness ==
  /\ pc = "done"
  /\ outcome = "no_data"
  /\ recResult.kind = "list"
  /\ recResult.items = <<>>
  /\ Called(bucketResult)
  /\ Len(RequestsOf("fetch_bucket_data")) >= 1

\* C4 as claimed: once the record fetch has failed, the run produces no chart
\* and no PDF and ends reporting "no data available".
C4_FetchFailureAborts ==
  RecordFetchFailed =>
    /\ ~ChartWritten
    /\ ~pdf.written
    /\ pc = "done" => outcome = "no_data"

\* C4 amended: once the record fetch has failed, main() sends the bucket
\* query; the run ends with "no data available", without chart or PDF, only
\* if that yields no records too. Otherwise it does not report "no data
\* available" and hands the buckets to generate_visualization and
\* create_pdf_report: a chart is written exactly when generate_visualization
\* returns True, which it does exactly when some bucket carries a timestamp
\* and plotting does not raise; the PDF is written from the buckets unless
\* generate_visualization raised, and then the run ends with neither.
C4_FetchFailureFallsBackToBuckets ==
  RecordFetchFailed =>
    /\ \/ pc = "fetch_bucket" /\ ~Called(bucketResult)
       \/ Called(bucketResult) /\ Len(RequestsOf("fetch_bucket_data")) >= 1
    /\ Called(bucketResult) =>
         IF Falsy(bucketResult)
         THEN /\ pc = "done"
              /\ outcome = "no_data"
              /\ vizSuccess = "unset"
              /\ ~ChartWritten
              /\ ~pdf.written
         ELSE LET buckets == bucketResult.items
                  dated == {i \in 1..Len(buckets) :
                              "timestamp" \in DOMAIN buckets[i]}
              IN
              /\ records = bucketResult
              /\ pc \in {"visualize", "create_pdf", "done"}
              /\ outcome \in {"running", "completed", "raised"}
              /\ pc = "done" <=> outcome \in {"completed", "raised"}
              /\ pc = "visualize" =>
                   vizSuccess = "unset" /\ ~ChartWritten /\ ~pdf.written
              /\ ChartWritten <=> vizSuccess = "true"
              /\ (pc # "visualize" /\ outcome # "raised") =>
                   /\ vizSuccess \in {"true", "false"}
                   /\ vizSuccess = "true" <=> dated # {}
              /\ ChartWritten =>
                   /\ Len(chart) = Cardinality(dated)
                   /\ \A k \in 1..Len(chart) :
                        \E i \in dated : chart[k].x = buckets[i]["timestamp"]
              /\ outcome = "raised" =>
                   /\ dated # {}
                   /\ Cardinality(dated) < Len(buckets)
                   /\ vizSuccess = "unset"
                   /\ ~ChartWritten
                   /\ ~pdf.written
              /\ pdf.written <=> outcome = "completed"
              /\ pdf.written =>
                   /\ pdf.stats
                   /\ pdf.total = Len(buckets)
                   /\ Len(pdf.top) = (IF Len(buckets) < TopN
                                      THEN Len(buckets) ELSE TopN)

\* The record fetch failed and the run still wrote a chart and a PDF.
C4_Witness ==
  /\ RecordFetchFailed
  /\ pc = "done"
  /\ outcome = "completed"
  /\ pdf.written
  /\ ChartWritten

\* C5 as claimed: every timestamp of the record set a run holds after its
\* fetches lies in the lookback window [now - DAYS_BACK, now].
C5_FetchedWithinWindow ==
  records.kind = "list" =>
    \A i \in 1..Len(records.items) :
      Has(records.items[i], "timestamp") =>
        /\ now - DAYS_BACK <= records.items[i]["timestamp"]
        /\ records.items[i]["timestamp"] <= now

\* C6: every record fetch_anomaly_data returns has record_score >= the
\* query's threshold, a missing record_score read as 0, whatever the
\* response's hits are.
C6_ReturnedScoresAtLeastThreshold ==
  (pc = "returned" /\ recResult.kind = "list") =>
    \A i \in 1..Len(recResult.items) :
      (IF Has(recResult.items[i], "record_score")
       THEN recResult.items[i]["record_score"] ELSE 0) >= ScoreThreshold

\* The response held a record scoring below the threshold and one above it.
C6_Witness ==
  /\ pc = "returned"
  /\ recResult.kind = "list"
  /\ recResult.items # <<>>
  /\ LET response == IF IsNotFound(resp1) THEN resp2 ELSE resp1 IN
     \E i \in 1..Len(response.hits) :
       /\ Has(response.hits[i], "record_score")
       /\ response.hits[i]["record_score"] < ScoreThreshold

\* The severity tiers a score falls in.
TiersOf(s) ==
  {t \in {"Critical", "Major", "Minor", "Negligible"} :
     \/ t = "Critical" /\ IsCritical(s)
     \/ t = "Major" /\ IsMajor(s)
     \/ t = "Minor" /\ IsMinor(s)
     \/ t = "Negligible" /\ s <= 25}

\* C7: in the PDF's summary every record's score falls in exactly one of
\* Critical, Major, Minor, Negligible; the three counts add up to the total
\* less the records scoring <= 25; scores 80, 60, 30, 10 count 1, 1, 1.
C7_SeverityPartition ==
  (pdf.written /\ pdf.stats) =>
    LET recs == records.items
        sc == [i \in 1..Len(recs) |->
                 IF Has(recs[i], "record_score") THEN recs[i]["record_score"] ELSE 0]
        low == Cardinality({i \in 1..Len(recs) : sc[i] <= 25})
    IN /\ \A i \in 1..Len(recs) : Cardinality(TiersOf(sc[i])) = 1
       /\ pdf.total = Len(recs)
       /\ pdf.critical = Cardinality({i \in 1..Len(recs) : sc[i] > 75})
       /\ pdf.critical + pdf.major + pdf.minor + low = pdf.total
       /\ sc = ScenarioScores =>
            /\ pdf.critical = 1
            /\ pdf.major = 1
            /\ pdf.minor = 1
            /\ low = 1

\* The PDF written for the scores 80, 60, 30, 10.
C7_Witness ==
  /\ pdf.written
  /\ Scores(records.items) = ScenarioScores
  /\ pdf.total = 4
  /\ pdf.critical + pdf.major + pdf.minor = 3

\* The records of a list that carry a timestamp.
WithTimestamp(recs) == SelectSeq(recs, LAMBDA r : Has(r, "timestamp"))

\* C8 as claimed: a record without a timestamp reaches no output: the chart
\* shows the records with a timestamp, each with its own score and test
\* name, and the PDF counts and lists only those.
C8_NoTimestampRejected ==
  LET kept == WithTimestamp(records.items) IN
  /\ ChartWritten =>
       chart = [i \in 1..Len(kept) |->
                  [x |-> kept[i]["timestamp"],
                   y |-> Score(kept[i]),
                   test |-> Get(kept[i], "partition_field_value", "Unknown")]]
  /\ pdf.written =>
       /\ pdf.total = Len(kept)
       /\ pdf.top = TopAnomalies(kept)

\* C9: each fetch function sends at most two search requests, the second only
\* after a 404 on the first, to the shared index with the same body; a run
\* sends at most four.
C9_SingleIndexFallback ==
  /\ Len(requests) <= 4
  /\ \A fn \in {"fetch_anomaly_data", "fetch_bucket_data"} :
       LET rs == RequestsOf(fn) IN
       /\ Len(rs) <= 2
       /\ Len(rs) >= 1 => rs[1].index = PrimaryIndex
       /\ Len(rs) = 2 =>
            /\ rs[1].status = 404
            /\ rs[2].index = SharedIndex
            /\ rs[2].payload = rs[1].payload
  /\ \A i \in 1..Len(requests) :
       requests[i].fn \in {"fetch_anomaly_data", "fetch_bucket_data"}

\* Both fetches fell back to the shared index.
C9_Witness ==
  /\ Len(requests) = 4
  /\ requests[1].status = 404
  /\ requests[3].status = 404

\* C10 as claimed: a PDF embeds a chart only if generate_visualization
\* succeeded in this run, so the chart is this run's.
C10_EmbeddedChartIsThisRuns ==
  (pdf.written /\ pdf.image # "none") =>
    (vizSuccess = "true" /\ pdf.image = "fresh")

====
